---- MODULE Spec2Model ----
(***************************************************************************)
(* Model of the peer-to-peer transport and session layer of WhisperNet     *)
(* (src/python/whisper.py, class InternetP2PMessenger).                    *)
(*                                                                         *)
(* A node keeps an ordered peer table (online_peers, a Python dict, which  *)
(* iterates in insertion order), a session cache (peer_boxes) and a queue  *)
(* of messages awaiting a receipt (message_queue).  The receive loop, the  *)
(* keepalive loop and the command flow act on them.                        *)
(***************************************************************************)
EXTENDS Integers, Sequences, FiniteSets, TLC

VARIABLES
    nodes,          \* the nodes whose process is running in this system
    online_peers,   \* node -> sequence of peer entries, in insertion order
    peer_boxes,     \* node -> (user id -> public key the Box was built from, or NoBox)
    message_queue,  \* node -> sequence of messages awaiting a receipt
    now,            \* time.time(), in seconds
    uuids,          \* number of message ids issued so far (uuid4 is fresh each time)
    net,            \* datagrams in flight between running nodes
    ev,             \* the operation performed last and its input
    sent,           \* the datagrams the last operation passed to socket.sendto, in order
    surfaced,       \* what the last operation showed to the user
    heard,          \* node -> user id -> the last presence event received for it
    running,        \* self.running of node A
    lock,           \* the thread of node A that holds self.lock, or Free
    pc,             \* thread of node A -> where it is in its code
    frame,          \* thread of node A -> its local variables
    shutdown,       \* whether SIGINT was delivered, and presence(offline) broadcast
    public_ip,      \* self.public_ip of node A: the parts of the dotted address
    public_port,    \* self.public_port of node A
    stun            \* discover_public_address of node A: where it is, and what it met

threads == <<running, lock, pc, frame, shutdown>>

address == <<public_ip, public_port, stun>>

vars == <<nodes, online_peers, peer_boxes, message_queue, now, uuids, net, ev, sent,
          surfaced, heard, running, lock, pc, frame, shutdown, public_ip, public_port, stun>>

----------------------------------------------------------------------------
(* Bounds of the model *)

MaxTicks == 1       \* how many times the clock advances
MaxMsgs == 2        \* how many messages are sent in a behaviour
MaxRetries == 2     \* max_retries of discover_public_address

(* Program constants *)

PeerTimeout == 300  \* cleanup_peers: seconds without news before eviction
MinResponse == 20   \* discover_public_address: the shortest response that is parsed
MappedAddrStart == 28   \* xor_mapped_addr_start
PortMask == 8466    \* 0x2112
IpMask == 33        \* 0x21
HttpOk == 200

----------------------------------------------------------------------------
(* Values *)

Users == {"A", "B", "X", ""}        \* user ids; "A" and "B" are also the nodes
Nodes == {"A", "B"}
Names == {"BOB", "alice"}           \* the names the user types
Missing == "<missing>"              \* a key that is absent from a JSON object
NoBox == "<nobox>"
NoName == "<none>"

ValidKeys == {"KA", "KB", "KX", "KE"}   \* base64 of a 32-byte Curve25519 key
BadKey == "bad"                     \* a string PublicKey(base64.b64decode(.)) rejects
Keys == ValidKeys \cup {BadKey}

Addr(i, p) == [ip |-> i, port |-> p]
NoAddr == Addr("<none>", 0)
AddrA == Addr("ip1", 5000)
AddrB == Addr("ip2", 5000)
AddrB2 == Addr("ip2", 5001)         \* same host as AddrB, other port
AddrX == Addr("ip3", 5000)
AddrE == Addr("ip4", 5000)
Addrs == {AddrB, AddrB2, AddrX}     \* where foreign datagrams come from

(* What a running node is: its user_id, username, key pair and socket address. *)
user_id(n) == n
username(n) == IF n = "A" THEN "alice" ELSE "bob"
public_key(n) == IF n = "A" THEN "KA" ELSE "KB"
NodeAddr(n) == IF n = "A" THEN AddrA ELSE AddrB

(* str.lower() on the names of the model *)
Lower(s) == IF s = "BOB" THEN "bob" ELSE s

(* A JSON object; a field that is Missing is a key the object does not have
   (message_id 0 and timestamp -1 are the absent number fields). *)
Blank == [type |-> Missing, user_id |-> Missing, username |-> Missing,
          status |-> Missing, pubkey |-> Missing, message_id |-> 0,
          to_user_id |-> Missing, from_username |-> Missing,
          content |-> Missing, timestamp |-> -1]

(* A datagram: its bytes are a UTF-8 JSON object ("object"), UTF-8 JSON that is
   not an object ("scalar"), UTF-8 text that is not JSON ("text") or not UTF-8
   at all ("binary").  box is the key pair a ciphertext was made with (the
   sender's public key and the public key it was encrypted to), msg the JSON
   object it carries, in clear or encrypted. *)
NoKeys == [from |-> NoBox, to |-> NoBox]
Plain(m) == [form |-> "object", box |-> NoKeys, msg |-> m]
Cipher(f, from, to, m) == [form |-> f, box |-> [from |-> from, to |-> to], msg |-> m]
NoData == [form |-> "<none>", box |-> NoKeys, msg |-> Blank]

Out(a, d) == [dst |-> a, data |-> d]

Forms == {"text", "binary"}     \* a Box's output is random bytes: mostly not UTF-8

(* the forms the bytes of the datagrams of out can have: one outcome for
   plaintext, one per form for a fresh ciphertext *)
Bytes(out) ==
    IF \E i \in 1..Len(out) : out[i].data.form = "box"
    THEN {[i \in 1..Len(out) |->
             IF out[i].data.form = "box"
             THEN [out[i] EXCEPT !.data.form = f] ELSE out[i]] : f \in Forms}
    ELSE {out}

----------------------------------------------------------------------------
(* The peer table: a dict from user id to entry, kept in insertion order. *)

Entry(uid, name, addr, key, t) ==
    [user_id |-> uid, username |-> name, ip |-> addr.ip, port |-> addr.port,
     pubkey |-> key, last_seen |-> t]

HasPeer(tbl, uid) == \E i \in 1..Len(tbl) : tbl[i].user_id = uid

Index(tbl, uid) == CHOOSE i \in 1..Len(tbl) : tbl[i].user_id = uid

(* d[uid] = e : an existing key keeps its place, a new key goes last *)
SetPeer(tbl, uid, e) ==
    IF HasPeer(tbl, uid) THEN [tbl EXCEPT ![Index(tbl, uid)] = e] ELSE Append(tbl, e)

(* del d[uid] *)
DelPeer(tbl, uid) == SelectSeq(tbl, LAMBDA e : e.user_id # uid)

(* PublicKey(base64.b64decode(k)) succeeds *)
Parseable(k) == k \in ValidKeys

(* "not uid": the lookups start from None, and an empty user id tests the same *)
Falsy(uid) == uid = ""

(* The state one node's handlers read and write, and what a handler leaves:
   the new state, the datagrams it sent and what it showed to the user. *)
Local(n) == [peers |-> online_peers[n], boxes |-> peer_boxes[n], queue |-> message_queue[n]]

Result(tbl, boxes, queue, out, shown) ==
    [peers |-> tbl, boxes |-> boxes, queue |-> queue, out |-> out, shown |-> shown]

Drop(st) == Result(st.peers, st.boxes, st.queue, <<>>, <<>>)

(* kind "sent" is run's "Message sent to" line, printed when send_message returns True *)
Event(kind, who, what, mid) == [kind |-> kind, who |-> who, what |-> what, message_id |-> mid]

PresenceMsg(n, status) ==
    [Blank EXCEPT !.type = "presence", !.user_id = user_id(n), !.username = username(n),
                  !.status = status, !.pubkey = public_key(n)]

----------------------------------------------------------------------------
(* update_peer_list: ingest a peer list returned by a bootstrap node *)

ListedPeerKeptAll(n, peer) == TRUE

ListedPeerKept(n, peer) == peer.user_id # user_id(n)

RECURSIVE update_peer_list(_, _, _, _)
update_peer_list(n, st, peer_list, t) ==
    IF peer_list = <<>> THEN Drop(st)
    ELSE LET peer == Head(peer_list)
             tbl == SetPeer(st.peers, peer.user_id,
                            Entry(peer.user_id, peer.username, Addr(peer.ip, peer.port),
                                  peer.pubkey, t))
             boxes == IF Parseable(peer.pubkey)
                      THEN [st.boxes EXCEPT ![peer.user_id] = peer.pubkey]
                      ELSE st.boxes
             nxt == IF ListedPeerKept(n, peer)
                    THEN [st EXCEPT !.peers = tbl, !.boxes = boxes]
                    ELSE st
         IN  update_peer_list(n, nxt, Tail(peer_list), t)

----------------------------------------------------------------------------
(* handle_presence_message *)

AddressChangedIp(e, addr) == e.ip # addr.ip

AddressChanged(e, addr) == e.ip # addr.ip \/ e.port # addr.port

RefreshedNot(tbl, uid, t) == tbl

Refreshed(tbl, uid, t) == [tbl EXCEPT ![Index(tbl, uid)].last_seen = t]

handle_presence_message(n, st, message, addr, t) ==
    LET uid == message.user_id IN
    IF uid = Missing THEN Drop(st)                      \* KeyError, caught by the loop
    ELSE IF uid = user_id(n) THEN Drop(st)              \* our own message
    ELSE IF message.status = Missing THEN Drop(st)      \* KeyError
    ELSE IF message.status = "online" THEN
        IF ~HasPeer(st.peers, uid) \/ AddressChanged(st.peers[Index(st.peers, uid)], addr)
        THEN IF message.username = Missing \/ message.pubkey = Missing
             THEN Drop(st)                              \* KeyError before the assignment
             ELSE LET tbl == SetPeer(st.peers, uid,
                                     Entry(uid, message.username, addr, message.pubkey, t))
                  IN  IF Parseable(message.pubkey)
                      THEN Result(tbl, [st.boxes EXCEPT ![uid] = message.pubkey], st.queue,
                                  <<Out(addr, Plain(PresenceMsg(n, "online")))>>,
                                  <<Event("peer-online", message.username, "", 0)>>)
                      ELSE Result(tbl, st.boxes, st.queue, <<>>, <<>>)
        ELSE Result(Refreshed(st.peers, uid, t), st.boxes, st.queue, <<>>, <<>>)
    ELSE IF message.status = "offline" /\ HasPeer(st.peers, uid) THEN
        Result(DelPeer(st.peers, uid), [st.boxes EXCEPT ![uid] = NoBox], st.queue, <<>>,
               <<Event("peer-offline", st.peers[Index(st.peers, uid)].username, "", 0)>>)
    ELSE Drop(st)

----------------------------------------------------------------------------
(* handle_encrypted_message *)

FindByIp(tbl, addr) ==
    LET hits == {i \in 1..Len(tbl) : tbl[i].ip = addr.ip}
    IN  IF hits = {} THEN Missing
        ELSE tbl[CHOOSE i \in hits : \A j \in hits : i <= j].user_id

(* the first peer, in table order, recorded at the address; Missing if none *)
FindByAddr(tbl, addr) ==
    LET hits == {i \in 1..Len(tbl) : tbl[i].ip = addr.ip /\ tbl[i].port = addr.port}
    IN  IF hits = {} THEN Missing
        ELSE tbl[CHOOSE i \in hits : \A j \in hits : i <= j].user_id

(* Box(private_key(n), key).encrypt(m): the nonce is random, and so are the
   bytes; which form they have is settled when the datagram is sent *)
Encrypted(n, key, m) == Cipher("box", public_key(n), key, m)

(* Box(private_key(n), key).decrypt(data) succeeds *)
Decrypts(n, key, data) ==
    /\ data.box.from = key
    /\ data.box.to = public_key(n)

ReceiptedHead(queue, mid) == Tail(queue)

(* the queue after the first entry with the message id is popped *)
Receipted(queue, mid) ==
    LET hits == {i \in 1..Len(queue) : queue[i].message_id = mid}
    IN  IF hits = {} THEN queue
        ELSE LET k == CHOOSE i \in hits : \A j \in hits : i <= j
             IN  SubSeq(queue, 1, k - 1) \o SubSeq(queue, k + 1, Len(queue))

ReceiptMsg(mid) == [Blank EXCEPT !.type = "receipt", !.message_id = mid, !.status = "delivered"]

(* the try block: decrypt with the session of sender_id and act on the
   message; every exception is caught and logged *)
process_encrypted(n, st, sender_id, data, addr) ==
    IF st.boxes[sender_id] = NoBox THEN Drop(st)                    \* KeyError
    ELSE IF ~Decrypts(n, st.boxes[sender_id], data) THEN Drop(st)   \* CryptoError
    ELSE LET message == data.msg IN
         IF message.type = Missing THEN Drop(st)
         ELSE IF message.type = "message" /\ message.to_user_id = Missing THEN Drop(st)
         ELSE IF message.type = "message" /\ message.to_user_id = user_id(n) THEN
             IF \/ message.timestamp = -1
                \/ message.from_username = Missing
                \/ message.content = Missing
             THEN Drop(st)
             ELSE Result(st.peers, st.boxes, st.queue,
                         IF message.message_id = 0 THEN <<>>
                         ELSE <<Out(addr, Encrypted(n, st.boxes[sender_id],
                                                    ReceiptMsg(message.message_id)))>>,
                         <<Event("message-received", message.from_username, message.content,
                                 message.message_id)>>)
         ELSE IF message.type = "receipt" THEN
             IF \E i \in 1..Len(st.queue) : st.queue[i].message_id = message.message_id
             THEN Result(st.peers, st.boxes, Receipted(st.queue, message.message_id), <<>>,
                         <<Event("message-delivered", "", "", message.message_id)>>)
             ELSE Drop(st)
         ELSE Drop(st)

handle_encrypted_message(n, st, data, addr) ==
    LET sender_id == FindByAddr(st.peers, addr) IN
    IF sender_id = Missing \/ Falsy(sender_id) THEN Drop(st)
    ELSE IF st.boxes[sender_id] = NoBox THEN Drop(st)
    ELSE process_encrypted(n, st, sender_id, data, addr)

----------------------------------------------------------------------------
(* listen_for_messages: one datagram through the receive loop *)

PongMsg == [Blank EXCEPT !.type = "pong"]
PingMsg(n) == [Blank EXCEPT !.type = "ping", !.user_id = user_id(n)]

PingReplyToPort(addr) == <<Out(Addr(addr.ip, AddrB.port), Plain(PongMsg))>>

PingReply(addr) == <<Out(addr, Plain(PongMsg))>>

dispatch(n, st, data, addr, t) ==
    IF data.form = "binary" THEN Drop(st)       \* UnicodeDecodeError: the generic handler
    ELSE IF data.form = "text" THEN handle_encrypted_message(n, st, data, addr)
    ELSE IF data.form = "scalar" THEN Drop(st)  \* TypeError on message["type"]
    ELSE IF data.msg.type = Missing THEN Drop(st)
    ELSE IF data.msg.type = "presence" THEN handle_presence_message(n, st, data.msg, addr, t)
    ELSE IF data.msg.type = "ping" THEN Result(st.peers, st.boxes, st.queue, PingReply(addr), <<>>)
    ELSE Drop(st)

----------------------------------------------------------------------------
(* send_message *)

(* the first peer, in table order, whose name matches; 0 if none *)
LookupByName(tbl, to_username) ==
    LET hits == {i \in 1..Len(tbl) : Lower(tbl[i].username) = Lower(to_username)}
    IN  IF hits = {} THEN 0 ELSE CHOOSE i \in hits : \A j \in hits : i <= j

(* user_id and username hold the message's from_user_id and to_username *)
ChatMsg(n, mid, to_id, to_username, content, t) ==
    [Blank EXCEPT !.type = "message", !.message_id = mid, !.user_id = user_id(n),
                  !.from_username = username(n), !.to_user_id = to_id,
                  !.username = to_username, !.content = content, !.timestamp = t]

NotFound(st, to_username) ==
    Result(st.peers, st.boxes, st.queue, <<>>, <<Event("not-found", to_username, "", 0)>>)

(* the try block: encrypt the queued message with the recipient's session
   and send it; io is what socket.sendto does: "ok", or "error" when it
   raises; every exception is caught and makes the send return False *)
encrypt_and_send(n, st, message, addr, io) ==
    IF st.boxes[message.to_user_id] # NoBox /\ io = "ok"
    THEN Result(st.peers, st.boxes, st.queue,
                <<Out(addr, Encrypted(n, st.boxes[message.to_user_id], message))>>,
                <<Event("sent", message.username, message.content, message.message_id)>>)
    ELSE Result(st.peers, st.boxes, st.queue, <<>>,       \* KeyError or OSError
                <<Event("send-failed", message.username, message.content,
                        message.message_id)>>)

(* mid is the fresh uuid4 *)
send_message(n, st, to_username, content, mid, t, io) ==
    LET i == LookupByName(st.peers, to_username) IN
    IF i = 0 THEN NotFound(st, to_username)
    ELSE IF Falsy(st.peers[i].user_id) THEN NotFound(st, to_username)
    ELSE IF st.boxes[st.peers[i].user_id] = NoBox THEN NotFound(st, to_username)
    ELSE LET message == ChatMsg(n, mid, st.peers[i].user_id, to_username, content, t)
         IN  encrypt_and_send(n, [st EXCEPT !.queue = Append(st.queue, message)], message,
                              Addr(st.peers[i].ip, st.peers[i].port), io)

----------------------------------------------------------------------------
(* cleanup_peers *)

StaleAtTimeout(e, t) == t - e.last_seen >= PeerTimeout

Stale(e, t) == t - e.last_seen > PeerTimeout

cleanup_peers(n, st, t) ==
    LET to_remove == {st.peers[i].user_id : i \in {j \in 1..Len(st.peers) : Stale(st.peers[j], t)}}
    IN  Result(SelectSeq(st.peers, LAMBDA e : e.user_id \notin to_remove),
               [u \in Users |-> IF u \in to_remove THEN NoBox ELSE st.boxes[u]],
               st.queue, <<>>, <<>>)

----------------------------------------------------------------------------
(* Inputs *)

Contents == {"hello"}

(* the key and the name a foreign user announces (X and B share a name, up to case) *)
KeyOf(u) == IF u = "A" THEN "KA" ELSE IF u = "B" THEN "KB" ELSE IF u = "X" THEN "KX" ELSE "KE"
NameOf(u) == IF u = "A" THEN "alice" ELSE IF u = "B" THEN "bob" ELSE IF u = "X" THEN "BOB" ELSE "eve"

PresenceOf(u, status, key) ==
    Plain([Blank EXCEPT !.type = "presence", !.user_id = u, !.username = NameOf(u),
                        !.status = status, !.pubkey = key])

ForeignChat(u, mid) ==
    [Blank EXCEPT !.type = "message", !.message_id = mid, !.user_id = u,
                  !.from_username = NameOf(u), !.to_user_id = "A", !.username = "alice",
                  !.content = "hello", !.timestamp = 0]

(* a datagram and the address it comes from *)
From(a, d) == [src |-> a, data |-> d]

(* presence of B from its two ports, with a good or a bad key; of X; of A itself *)
ForeignPresence ==
    {From(a, PresenceOf("B", s, k)) :
        a \in {AddrB, AddrB2}, s \in {"online", "offline"}, k \in {"KB", BadKey}}
    \cup {From(AddrX, PresenceOf("X", s, "KX")) : s \in {"online", "offline"}}
    \cup {From(AddrX, PresenceOf("A", "online", "KA"))}

ForeignControl == {From(AddrB, Plain(PingMsg("B"))), From(AddrB2, Plain(PingMsg("B"))),
                   From(AddrX, Plain(PingMsg("X"))), From(AddrB, Plain(PongMsg))}

(* ciphertext B and X make for A, in both forms, with B's also sent from the
   port B has not announced and from X's address *)
ForeignCipher ==
    {From(a, Cipher(f, "KB", "KA", m)) :
        a \in {AddrB, AddrB2}, f \in Forms, m \in {ForeignChat("B", 1), ReceiptMsg(1)}}
    \cup {From(AddrX, Cipher("text", k, "KA", ReceiptMsg(1))) : k \in {"KB", "KX"}}

ForeignData == ForeignPresence \cup ForeignControl \cup ForeignCipher

ListedPeer(u, a, k) ==
    [user_id |-> u, username |-> NameOf(u), ip |-> a.ip, port |-> a.port, pubkey |-> k]

PeerLists ==
    {<<ListedPeer("B", a, k)>> : a \in {AddrB, AddrB2}, k \in {"KB", BadKey}}
    \cup {<<ListedPeer("A", AddrA, "KA")>>,
          <<ListedPeer("A", AddrA, "KA"), ListedPeer("X", AddrX, "KX")>>}

----------------------------------------------------------------------------
(* The system *)

(* The last operation: which, of which node, when, and its input: the
   datagram and its source address (with prior, the address the table held
   for the datagram's user_id before it), the name and content typed, or the
   peer list of the bootstrap node. *)
ThreadOf(op) == IF op = "recv" THEN "recv" ELSE IF op = "cleanup" THEN "keep" ELSE "main"

Ev(op, n) ==
    [op |-> op, node |-> n, thread |-> ThreadOf(op), at |-> now, data |-> NoData,
     src |-> NoAddr, prior |-> NoAddr, name |-> NoName, content |-> Missing, peers |-> <<>>]

NoEv == [Ev("init", "A") EXCEPT !.at = 0]

Prior(tbl, data) ==
    IF data.form = "object" /\ HasPeer(tbl, data.msg.user_id)
    THEN Addr(tbl[Index(tbl, data.msg.user_id)].ip, tbl[Index(tbl, data.msg.user_id)].port)
    ELSE NoAddr

EvRecv(n, data, src) ==
    [Ev("recv", n) EXCEPT !.data = data, !.src = src, !.prior = Prior(online_peers[n], data)]

(* What node n last heard of each user: the status of the last well-formed
   presence datagram for it, when it came, and whether an eviction has run
   since more than PeerTimeout seconds after it. *)
Unheard == [status |-> "none", at |-> 0, crossed |-> FALSE]

IsPresence(n, data) ==
    /\ data.form = "object"
    /\ data.msg.type = "presence"
    /\ data.msg.user_id \notin {Missing, user_id(n)}
    /\ data.msg.status \in {"online", "offline"}
    /\ data.msg.username # Missing
    /\ data.msg.pubkey # Missing

HeardAfter(n, data) ==
    IF IsPresence(n, data)
    THEN [heard EXCEPT ![n][data.msg.user_id] =
            [status |-> data.msg.status,
             at |-> IF data.msg.status = "online" THEN now ELSE 0,
             crossed |-> FALSE]]
    ELSE heard

HeardAfterCleanup(n) ==
    [heard EXCEPT ![n] = [u \in Users |->
        IF heard[n][u].status = "online" /\ now - heard[n][u].at > PeerTimeout
        THEN [heard[n][u] EXCEPT !.crossed = TRUE] ELSE heard[n][u]]]

EmptyBoxes == [u \in Users |-> NoBox]

(* The threads of node A: the command flow (run), the receive loop
   (listen_for_messages) and the keepalive loop (maintain_connections). *)
Threads == {"main", "recv", "keep"}
Free == "free"

NoFrame == [status |-> "", ret |-> "", name |-> NoName, peer |-> Missing, addr |-> NoAddr,
            data |-> NoData, src |-> NoAddr]

(* None, for the public address, and discover_public_address before its call *)
Undetermined == <<>>
NoPort == -1
NoStun == [pc |-> "idle", retries |-> 0, server |-> 1, result |-> "none", tried |-> <<>>]

(* the command flow waits for a command and each worker is at the top of its
   loop, the lock is free and no shutdown has begun *)
AtRest ==
    /\ running = TRUE
    /\ lock = Free
    /\ pc = [t \in Threads |-> IF t = "main" THEN "prompt" ELSE "loop"]
    /\ frame = [t \in Threads |-> NoFrame]
    /\ shutdown = [signalled |-> FALSE, offline |-> FALSE]
    /\ public_ip = Undetermined
    /\ public_port = NoPort
    /\ stun = NoStun

Init ==
    /\ AtRest
    /\ nodes = {"A"}
    /\ online_peers = [n \in Nodes |-> <<>>]
    /\ peer_boxes = [n \in Nodes |-> EmptyBoxes]
    /\ message_queue = [n \in Nodes |-> <<>>]
    /\ now = 0
    /\ uuids = 0
    /\ net = {}
    /\ ev = NoEv
    /\ sent = <<>>
    /\ surfaced = <<>>
    /\ heard = [n \in Nodes |-> [u \in Users |-> Unheard]]

(* the datagrams of out that reach the socket of a running node *)
OnWire(n, out) ==
    {[src |-> NodeAddr(n), dst |-> out[i].dst, data |-> out[i].data] :
        i \in {j \in 1..Len(out) : \E m \in nodes : NodeAddr(m) = out[j].dst}}

(* node n ends an operation with result r, having taken the datagrams of
   taken off the wire *)
Apply(n, r, taken) ==
    /\ online_peers' = [online_peers EXCEPT ![n] = r.peers]
    /\ peer_boxes' = [peer_boxes EXCEPT ![n] = r.boxes]
    /\ message_queue' = [message_queue EXCEPT ![n] = r.queue]
    /\ surfaced' = r.shown
    /\ \E out \in Bytes(r.out) :
          /\ sent' = out
          /\ net' = (net \ taken) \cup OnWire(n, out)

(* the receive loop of n takes a datagram of a foreign sender off the socket *)
Receive(n, inputs) ==
    /\ n \in nodes
    /\ \E i \in inputs :
          /\ Apply(n, dispatch(n, Local(n), i.data, i.src, now), {})
          /\ ev' = EvRecv(n, i.data, i.src)
          /\ heard' = HeardAfter(n, i.data)
    /\ UNCHANGED <<nodes, now, uuids, threads, address>>

(* the receive loop of n takes a datagram another node sent *)
Deliver(n) ==
    /\ n \in nodes
    /\ \E d \in net :
          /\ d.dst = NodeAddr(n)
          /\ Apply(n, dispatch(n, Local(n), d.data, d.src, now), {d})
          /\ ev' = EvRecv(n, d.data, d.src)
          /\ heard' = HeardAfter(n, d.data)
    /\ UNCHANGED <<nodes, now, uuids, threads, address>>

(* what socket.sendto does: the datagram leaves, or the call raises OSError *)
Reliable == {"ok"}
Transport == {"ok", "error"}

(* the command flow of n sends a message to one of the names *)
Send(n, names, ios) ==
    /\ n \in nodes
    /\ uuids < MaxMsgs
    /\ \E to_username \in names, content \in Contents, io \in ios :
          LET r == send_message(n, Local(n), to_username, content, uuids + 1, now, io) IN
          /\ Apply(n, r, {})
          /\ uuids' = IF r.queue = message_queue[n] THEN uuids ELSE uuids + 1
          /\ ev' = [Ev("send", n) EXCEPT !.name = to_username, !.content = content]
    /\ UNCHANGED <<nodes, now, heard, threads, address>>

(* the keepalive loop of n evicts stale peers *)
Cleanup(n) ==
    /\ n \in nodes
    /\ Apply(n, cleanup_peers(n, Local(n), now), {})
    /\ ev' = Ev("cleanup", n)
    /\ heard' = HeardAfterCleanup(n)
    /\ UNCHANGED <<nodes, now, uuids, threads, address>>

(* n registers with a bootstrap node and ingests the peer list it returns *)
Bootstrap(n) ==
    /\ n \in nodes
    /\ \E peer_list \in PeerLists :
          /\ Apply(n, update_peer_list(n, Local(n), peer_list, now), {})
          /\ ev' = [Ev("bootstrap", n) EXCEPT !.peers = peer_list]
    /\ UNCHANGED <<nodes, now, uuids, heard, threads, address>>

(* time passes: exactly the timeout, or a second more *)
Ticks(t) == t \div PeerTimeout

Tick ==
    /\ Ticks(now) < MaxTicks
    /\ \E d \in {PeerTimeout, PeerTimeout + 1} : now' = now + d
    /\ UNCHANGED <<nodes, online_peers, peer_boxes, message_queue, uuids, net, ev, sent,
                   surfaced, heard, threads, address>>

Next ==
    \/ Receive("A", ForeignData)
    \/ Cleanup("A")
    \/ Bootstrap("A")
    \/ Tick

(* Node A alone, from start-up: foreign datagrams, bootstrap lists, eviction
   and the clock act on its peer table and session cache. *)
Spec == Init /\ [][Next]_vars

----------------------------------------------------------------------------
(* Messaging: node A, after B and X have announced themselves, sends messages
   and receives ciphertext, while B changes address or key and peers leave. *)

InitMsg ==
    /\ AtRest
    /\ nodes = {"A"}
    /\ online_peers = [n \in Nodes |->
          IF n = "A" THEN <<Entry("B", "bob", AddrB, "KB", 0), Entry("X", "BOB", AddrX, "KX", 0)>>
          ELSE <<>>]
    /\ peer_boxes = [n \in Nodes |->
          IF n = "A" THEN [EmptyBoxes EXCEPT !["B"] = "KB", !["X"] = "KX"]
          ELSE EmptyBoxes]
    /\ message_queue = [n \in Nodes |-> <<>>]
    /\ now = 0
    /\ uuids = 0
    /\ net = {}
    /\ ev = NoEv
    /\ sent = <<>>
    /\ surfaced = <<>>
    /\ heard = [n \in Nodes |-> [u \in Users |-> Unheard]]

MsgCipher ==
    {From(a, Cipher(f, "KB", "KA", m)) :
        a \in {AddrB, AddrB2}, f \in Forms,
        m \in {ForeignChat("B", 1)} \cup {ReceiptMsg(i) : i \in 1..MaxMsgs}}
    \cup {From(AddrX, Cipher("text", "KX", "KA", ReceiptMsg(i))) : i \in 1..MaxMsgs}

MsgPresence ==
    {From(a, PresenceOf("B", "online", k)) : a \in {AddrB, AddrB2}, k \in {"KB", BadKey}}
    \cup {From(AddrB, PresenceOf("B", "offline", "KB")),
          From(AddrX, PresenceOf("X", "offline", "KX"))}

MsgControl == {From(AddrB, Plain(PingMsg("B"))), From(AddrB2, Plain(PingMsg("B")))}

MsgData == MsgCipher \cup MsgPresence \cup MsgControl

NextMsg ==
    \/ Receive("A", MsgData)
    \/ Send("A", Names, Reliable)

MsgSpec == InitMsg /\ [][NextMsg]_vars

----------------------------------------------------------------------------
(* A quiet network: no peer ever announces presence to node A.  A learns of
   peers from bootstrap nodes only, sends to them and receives ciphertext. *)

NextQuiet ==
    \/ Bootstrap("A")
    \/ Receive("A", ForeignCipher)
    \/ Send("A", Names, Reliable)

QuietSpec == Init /\ [][NextQuiet]_vars

(* Presence only: no bootstrap node answers. *)

NextPresence ==
    \/ Receive("A", ForeignData)
    \/ Cleanup("A")
    \/ Tick

PresenceSpec == Init /\ [][NextPresence]_vars

----------------------------------------------------------------------------
(* Sending: node A, knowing B and X, sends to names while peers come, move,
   lose their key or leave, one of them announcing an empty user id, and
   while the socket accepts a datagram or raises. *)

SendNames == {"BOB", "eve"}

SendData ==
    {From(AddrE, PresenceOf("", s, "KE")) : s \in {"online", "offline"}}
    \cup {From(AddrB2, PresenceOf("B", "online", BadKey)),
          From(AddrB, PresenceOf("B", "online", BadKey)),
          From(AddrB, PresenceOf("B", "offline", "KB")),
          From(AddrX, PresenceOf("X", "offline", "KX"))}

NextSend ==
    \/ Receive("A", SendData)
    \/ Send("A", SendNames, Transport)

SendSpec == InitMsg /\ [][NextSend]_vars

----------------------------------------------------------------------------
(* Malformed datagrams: node A, knowing B and X, receives plaintext that is
   not a JSON object, has no type or an unknown one, or is a presence with a
   field missing, while it sends messages and the clock advances. *)

Without(d, field) == [d EXCEPT !.msg[field] = Missing]

MalformedData ==
    {From(AddrB, [form |-> "scalar", box |-> NoKeys, msg |-> Blank]),
     From(AddrB, Plain(Blank)),
     From(AddrB, Plain([Blank EXCEPT !.type = "hello", !.user_id = "B"]))}
    \cup {From(a, Without(PresenceOf("B", s, "KB"), field)) :
            a \in {AddrB, AddrB2}, s \in {"online", "offline"},
            field \in {"user_id", "username", "status", "pubkey"}}
    \cup {From(AddrE, Without(PresenceOf("", "online", "KE"), field)) :
            field \in {"username", "pubkey"}}

NextMalformed ==
    \/ Receive("A", MalformedData \cup MsgPresence)
    \/ Send("A", Names, Reliable)
    \/ Tick

MalformedSpec == InitMsg /\ [][NextMalformed]_vars

----------------------------------------------------------------------------
(* Two nodes, A and B, each holding the other in its peer table with a
   session, at the address the other sends from; no datagram is lost. *)

InitTwo ==
    /\ AtRest
    /\ nodes = {"A", "B"}
    /\ online_peers = [n \in Nodes |->
          IF n = "A" THEN <<Entry("B", username("B"), NodeAddr("B"), public_key("B"), 0)>>
          ELSE <<Entry("A", username("A"), NodeAddr("A"), public_key("A"), 0)>>]
    /\ peer_boxes = [n \in Nodes |->
          [u \in Users |-> IF u \in Nodes \ {n} THEN public_key(u) ELSE NoBox]]
    /\ message_queue = [n \in Nodes |-> <<>>]
    /\ now = 0
    /\ uuids = 0
    /\ net = {}
    /\ ev = NoEv
    /\ sent = <<>>
    /\ surfaced = <<>>
    /\ heard = [n \in Nodes |-> [u \in Users |-> Unheard]]

NextTwo ==
    \/ \E n \in Nodes : Send(n, Names, Reliable)
    \/ \E n \in Nodes : Deliver(n)

(* a receive loop that has a datagram waiting on its socket takes it *)
TwoNode == InitTwo /\ [][NextTwo]_vars /\ \A n \in Nodes : WF_vars(Deliver(n))

----------------------------------------------------------------------------
(* The threads of node A, step by step.  A step that takes the lock is
   enabled when the lock is free; "with self.lock" releases it at the end of
   the block.  Node A knows B and X; no bootstrap node answers. *)

Proc == "A"

Go(t, label) == pc' = [pc EXCEPT ![t] = label]

Call(t, label, f) ==
    /\ pc' = [pc EXCEPT ![t] = label]
    /\ frame' = [frame EXCEPT ![t] = f]

(* thread t ends a step op with result r *)
Act(t, op, r) ==
    /\ Apply(Proc, r, {})
    /\ ev' = [Ev(op, Proc) EXCEPT !.thread = t]
    /\ UNCHANGED <<nodes, now, address>>

Quiet == Drop(Local(Proc))

(* the process has not exited: the workers are daemon threads *)
Alive == pc["main"] # "exited"

(* broadcast_presence(status), called by thread t, which goes on at ret *)
Broadcast(status, ret) == [NoFrame EXCEPT !.status = status, !.ret = ret]

BpAcquire(t) ==
    /\ Alive /\ pc[t] = "bp" /\ lock = Free
    /\ lock' = t
    /\ Go(t, "bp:send")
    /\ Act(t, "bp:acquire", Quiet)
    /\ UNCHANGED <<running, frame, shutdown, uuids, heard>>

(* the loop over list(self.online_peers.items()), inside "with self.lock" *)
PresenceTo(tbl, status) ==
    [i \in 1..Len(tbl) |->
        Out(Addr(tbl[i].ip, tbl[i].port), Plain(PresenceMsg(Proc, status)))]

BpSend(t) ==
    /\ Alive /\ pc[t] = "bp:send" /\ lock = t
    /\ lock' = Free
    /\ Call(t, frame[t].ret, NoFrame)
    /\ Act(t, "bp:send",
           Result(online_peers[Proc], peer_boxes[Proc], message_queue[Proc],
                  PresenceTo(online_peers[Proc], frame[t].status), <<>>))
    /\ shutdown' = IF frame[t].status = "offline"
                   THEN [shutdown EXCEPT !.offline = TRUE] ELSE shutdown
    /\ UNCHANGED <<running, uuids, heard>>

(* signal_handler: SIGINT interrupts the command flow wherever it is, the
   lock it may hold stays held; the handler runs on the main thread.  Its
   sys.exit(0) ends the process at once when run is already in its finally
   block. *)
Signal ==
    /\ Alive /\ ~shutdown.signalled
    /\ pc["main"] # "exit"
    /\ running' = FALSE
    /\ shutdown' = [shutdown EXCEPT !.signalled = TRUE]
    /\ Call("main", "bp",
            Broadcast("offline", IF pc["main"] \in {"bp", "bp:send"} THEN "exit" ELSE "sig:exit"))
    /\ Act("main", "signal", Quiet)
    /\ UNCHANGED <<lock, uuids, heard>>

(* time.sleep(0.5); sys.exit(0): SystemExit unwinds run, whose finally block
   broadcasts presence(offline) once more *)
SigExit ==
    /\ Alive /\ pc["main"] = "sig:exit"
    /\ Call("main", "bp", Broadcast("offline", "exit"))
    /\ Act("main", "sys.exit", Quiet)
    /\ UNCHANGED <<running, lock, shutdown, uuids, heard>>

(* run returns and the process ends *)
Exit ==
    /\ pc["main"] = "exit"
    /\ Go("main", "exited")
    /\ Act("main", "exit", Quiet)
    /\ UNCHANGED <<running, lock, frame, shutdown, uuids, heard>>

(* the command 'list': display_online_users prints under the lock *)
CmdList ==
    /\ pc["main"] = "prompt" /\ lock = Free
    /\ lock' = "main"
    /\ Go("main", "list")
    /\ Act("main", "list", Quiet)
    /\ UNCHANGED <<running, frame, shutdown, uuids, heard>>

ListDone ==
    /\ pc["main"] = "list" /\ lock = "main"
    /\ lock' = Free
    /\ Go("main", "prompt")
    /\ Act("main", "list:done", Quiet)
    /\ UNCHANGED <<running, frame, shutdown, uuids, heard>>

(* the command 'exit': running = False; break; finally: broadcast offline *)
CmdExit ==
    /\ pc["main"] = "prompt"
    /\ running' = FALSE
    /\ Call("main", "bp", Broadcast("offline", "exit"))
    /\ Act("main", "cmd:exit", Quiet)
    /\ UNCHANGED <<lock, shutdown, uuids, heard>>

(* a name is typed: run looks it up under the lock *)
CmdName ==
    /\ pc["main"] = "prompt" /\ lock = Free
    /\ uuids < MaxMsgs
    /\ \E name \in Names :
          /\ Call("main", "exists", [NoFrame EXCEPT !.name = name])
          /\ Act("main", "exists", Quiet)
    /\ lock' = "main"
    /\ UNCHANGED <<running, shutdown, uuids, heard>>

ExistsDone ==
    /\ pc["main"] = "exists" /\ lock = "main"
    /\ lock' = Free
    /\ IF LookupByName(online_peers[Proc], frame["main"].name) = 0
       THEN /\ Call("main", "prompt", NoFrame)
            /\ Act("main", "exists:done", NotFound(Local(Proc), frame["main"].name))
       ELSE /\ Go("main", "send:lookup") /\ UNCHANGED frame
            /\ Act("main", "exists:done", Quiet)
    /\ UNCHANGED <<running, shutdown, uuids, heard>>

(* send_message: the lookup under the lock, then, the lock released, the
   test for a session and the append to the queue *)
SendLookup ==
    /\ pc["main"] = "send:lookup" /\ lock = Free
    /\ LET st == Local(Proc)
           name == frame["main"].name
           i == LookupByName(st.peers, name)
       IN  IF i = 0 \/ Falsy(st.peers[i].user_id) \/ st.boxes[st.peers[i].user_id] = NoBox
           THEN /\ Call("main", "prompt", NoFrame)
                /\ Act("main", "send:lookup", NotFound(st, name))
                /\ UNCHANGED uuids
           ELSE LET message == ChatMsg(Proc, uuids + 1, st.peers[i].user_id, name,
                                       "hello", now)
                IN  /\ Call("main", "send:use",
                            [NoFrame EXCEPT !.name = name, !.peer = st.peers[i].user_id,
                                            !.addr = Addr(st.peers[i].ip, st.peers[i].port),
                                            !.data = Plain(message)])
                    /\ Act("main", "send:lookup",
                           Result(st.peers, st.boxes, Append(st.queue, message), <<>>, <<>>))
                    /\ uuids' = uuids + 1
    /\ UNCHANGED <<running, lock, shutdown, heard>>

(* send_message: the session is read again, without the lock, to encrypt *)
SendUse ==
    /\ pc["main"] = "send:use"
    /\ Call("main", "prompt", NoFrame)
    /\ Act("main", "send:use",
           encrypt_and_send(Proc, Local(Proc), frame["main"].data.msg, frame["main"].addr, "ok"))
    /\ UNCHANGED <<running, lock, shutdown, uuids, heard>>

(* the receive loop: while self.running *)
RecvLoop ==
    /\ Alive /\ pc["recv"] = "loop"
    /\ Go("recv", IF running THEN "recvfrom" ELSE "done")
    /\ Act("recv", "loop", Quiet)
    /\ UNCHANGED <<running, lock, frame, shutdown, uuids, heard>>

(* socket.timeout after a second without a datagram *)
RecvTimeout ==
    /\ Alive /\ pc["recv"] = "recvfrom"
    /\ Go("recv", "loop")
    /\ Act("recv", "timeout", Quiet)
    /\ UNCHANGED <<running, lock, frame, shutdown, uuids, heard>>

ThreadData ==
    {From(AddrB2, PresenceOf("B", "online", "KB")),
     From(AddrB, PresenceOf("B", "offline", "KB")),
     From(AddrB, Plain(PingMsg("B"))),
     From(AddrB, Cipher("text", "KB", "KA", ReceiptMsg(1)))}

(* a presence datagram of another user: handle_presence_message takes the lock *)
RecvPresence ==
    /\ Alive /\ pc["recv"] = "recvfrom" /\ lock = Free
    /\ \E i \in ThreadData :
          /\ i.data.form = "object" /\ i.data.msg.type = "presence"
          /\ i.data.msg.user_id # user_id(Proc)
          /\ Call("recv", "presence", [NoFrame EXCEPT !.data = i.data, !.src = i.src])
    /\ lock' = "recv"
    /\ Act("recv", "presence:acquire", Quiet)
    /\ UNCHANGED <<running, shutdown, uuids, heard>>

(* the body of handle_presence_message, the reply included, under the lock *)
PresenceBody ==
    /\ Alive /\ pc["recv"] = "presence" /\ lock = "recv"
    /\ lock' = Free
    /\ Call("recv", "loop", NoFrame)
    /\ Act("recv", "presence",
           handle_presence_message(Proc, Local(Proc), frame["recv"].data.msg,
                                   frame["recv"].src, now))
    /\ heard' = HeardAfter(Proc, frame["recv"].data)
    /\ UNCHANGED <<running, shutdown, uuids>>

RecvPing ==
    /\ Alive /\ pc["recv"] = "recvfrom"
    /\ \E i \in ThreadData :
          /\ i.data.form = "object" /\ i.data.msg.type = "ping"
          /\ Act("recv", "ping",
                 Result(online_peers[Proc], peer_boxes[Proc], message_queue[Proc],
                        PingReply(i.src), <<>>))
    /\ Go("recv", "loop")
    /\ UNCHANGED <<running, lock, frame, shutdown, uuids, heard>>

(* handle_encrypted_message: the sender is looked up under the lock, then,
   the lock released, tested for a session *)
RecvCipher ==
    /\ Alive /\ pc["recv"] = "recvfrom" /\ lock = Free
    /\ \E i \in ThreadData :
          /\ i.data.form = "text"
          /\ LET sender_id == FindByAddr(online_peers[Proc], i.src)
             IN  IF \/ sender_id = Missing \/ Falsy(sender_id)
                    \/ peer_boxes[Proc][sender_id] = NoBox
                 THEN Call("recv", "loop", NoFrame)
                 ELSE Call("recv", "enc:use",
                           [NoFrame EXCEPT !.peer = sender_id, !.data = i.data, !.src = i.src])
    /\ Act("recv", "enc:lookup", Quiet)
    /\ UNCHANGED <<running, lock, shutdown, uuids, heard>>

(* handle_encrypted_message: the session is read again, without the lock *)
EncUse ==
    /\ Alive /\ pc["recv"] = "enc:use"
    /\ Call("recv", "loop", NoFrame)
    /\ Act("recv", "enc:use",
           process_encrypted(Proc, Local(Proc), frame["recv"].peer, frame["recv"].data,
                             frame["recv"].src))
    /\ UNCHANGED <<running, lock, shutdown, uuids, heard>>

(* the keepalive loop: while self.running *)
KeepLoop ==
    /\ Alive /\ pc["keep"] = "loop"
    /\ Go("keep", IF running THEN "ping" ELSE "done")
    /\ Act("keep", "loop", Quiet)
    /\ UNCHANGED <<running, lock, frame, shutdown, uuids, heard>>

PingAcquire ==
    /\ Alive /\ pc["keep"] = "ping" /\ lock = Free
    /\ lock' = "keep"
    /\ Go("keep", "ping:send")
    /\ Act("keep", "ping:acquire", Quiet)
    /\ UNCHANGED <<running, frame, shutdown, uuids, heard>>

PingTo(tbl) ==
    [i \in 1..Len(tbl) |-> Out(Addr(tbl[i].ip, tbl[i].port), Plain(PingMsg(Proc)))]

(* the ping sweep, inside "with self.lock"; broadcast_presence() follows *)
PingSend ==
    /\ Alive /\ pc["keep"] = "ping:send" /\ lock = "keep"
    /\ lock' = Free
    /\ Call("keep", "bp", Broadcast("online", "cleanup"))
    /\ Act("keep", "ping:send",
           Result(online_peers[Proc], peer_boxes[Proc], message_queue[Proc],
                  PingTo(online_peers[Proc]), <<>>))
    /\ UNCHANGED <<running, shutdown, uuids, heard>>

(* cleanup_peers, under the lock; then the re-registration, which no
   bootstrap node answers, and time.sleep(30) *)
KeepCleanup ==
    /\ Alive /\ pc["keep"] = "cleanup" /\ lock = Free
    /\ Go("keep", "loop")
    /\ Act("keep", "cleanup", cleanup_peers(Proc, Local(Proc), now))
    /\ heard' = HeardAfterCleanup(Proc)
    /\ UNCHANGED <<running, lock, frame, shutdown, uuids>>

MainStep ==
    \/ BpAcquire("main") \/ BpSend("main")
    \/ SigExit \/ Exit \/ ListDone \/ ExistsDone \/ SendLookup \/ SendUse

RecvStep == RecvLoop \/ RecvTimeout \/ PresenceBody \/ EncUse

KeepStep ==
    \/ KeepLoop \/ PingAcquire \/ PingSend
    \/ BpAcquire("keep") \/ BpSend("keep")
    \/ KeepCleanup

(* what the user, the operating system and the network do *)
Environment ==
    \/ CmdList \/ CmdExit \/ CmdName \/ Signal
    \/ RecvPresence \/ RecvPing \/ RecvCipher

NextThreads == MainStep \/ RecvStep \/ KeepStep \/ Environment

(* every thread that can take a step of its code takes one *)
ThreadSpec ==
    /\ InitMsg /\ [][NextThreads]_vars
    /\ WF_vars(MainStep) /\ WF_vars(RecvStep) /\ WF_vars(KeepStep)

----------------------------------------------------------------------------
(* discover_public_address: node A, before it registers and starts its
   workers, asks each STUN server in turn, in up to MaxRetries passes, and
   then the HTTPS IP-echo service. *)

stun_servers == <<"stun1:19302", "stun2:19302">>

Min(a, b) == IF a < b THEN a ELSE b

(* response[a:b] *)
Slice(response, a, b) == SubSeq(response, a + 1, Min(b, Len(response)))

(* int.from_bytes(bs, byteorder='big') *)
RECURSIVE FromBytes(_)
FromBytes(bs) ==
    IF bs = <<>> THEN 0
    ELSE 256 * FromBytes(SubSeq(bs, 1, Len(bs) - 1)) + bs[Len(bs)]

(* a ^ b *)
RECURSIVE Xor(_, _)
Xor(a, b) ==
    IF a = 0 /\ b = 0 THEN 0
    ELSE (((a % 2) + (b % 2)) % 2) + 2 * Xor(a \div 2, b \div 2)

(* what the body of the try block makes of a response: "short" when it is
   under 20 bytes (nothing is parsed), "error" when ip_bytes[i] raises
   IndexError, else the address *)
Parsed(response) ==
    IF Len(response) < MinResponse THEN [kind |-> "short", ip |-> Undetermined, port |-> NoPort]
    ELSE LET port_bytes == Slice(response, MappedAddrStart, MappedAddrStart + 2)
             ip_bytes == Slice(response, MappedAddrStart + 2, MappedAddrStart + 6)
         IN  IF Len(ip_bytes) < 4
             THEN [kind |-> "error", ip |-> Undetermined, port |-> NoPort]
             ELSE [kind |-> "address",
                   ip |-> [i \in 1..4 |-> Xor(ip_bytes[i], IpMask)],
                   port |-> Xor(FromBytes(port_bytes), PortMask)]

Zeros(k) == [i \in 1..k |-> 0]

(* responses of 12, 20 and 32 bytes, and two of 34 bytes that carry
   10.0.0.1:5000 and 10.0.0.2:5001 *)
Responses ==
    {Zeros(12), Zeros(20),
     Zeros(28) \o <<50, 154, 43, 33>>,
     Zeros(28) \o <<50, 154, 43, 33, 33, 32>>,
     Zeros(28) \o <<50, 155, 43, 33, 33, 35>>}

(* what the IP-echo service answers: a status and, as text, an address *)
EchoReplies == {[status |-> HttpOk, text |-> <<203, 0, 113, 7>>],
                [status |-> 503, text |-> <<>>]}

local_port == AddrA.port

(* how an attempt ended: by an exception, a timeout, a STUN response or an
   answer of the IP-echo service *)
Outcome(kind) == [kind |-> kind, response |-> <<>>, status |-> 0, text |-> <<>>]
Responded(response) == [Outcome("response") EXCEPT !.response = response]
Replied(reply) == [Outcome("reply") EXCEPT !.status = reply.status, !.text = reply.text]

InitDiscover ==
    /\ running = TRUE
    /\ lock = Free
    /\ pc = [t \in Threads |-> IF t = "main" THEN "discover" ELSE "unstarted"]
    /\ frame = [t \in Threads |-> NoFrame]
    /\ shutdown = [signalled |-> FALSE, offline |-> FALSE]
    /\ public_ip = Undetermined
    /\ public_port = NoPort
    /\ stun = [NoStun EXCEPT !.pc = "pass"]
    /\ nodes = {"A"}
    /\ online_peers = [n \in Nodes |-> <<>>]
    /\ peer_boxes = [n \in Nodes |-> EmptyBoxes]
    /\ message_queue = [n \in Nodes |-> <<>>]
    /\ now = 0
    /\ uuids = 0
    /\ net = {}
    /\ ev = NoEv
    /\ sent = <<>>
    /\ surfaced = <<>>
    /\ heard = [n \in Nodes |-> [u \in Users |-> Unheard]]

Elsewhere ==
    UNCHANGED <<nodes, online_peers, peer_boxes, message_queue, now, uuids, net, ev, sent,
                surfaced, heard, running, lock, frame, shutdown>>

(* the attempt with the current server has ended with outcome: the for loop
   goes to the next server, or the pass ends and retries is incremented *)
NextServer(outcome) ==
    /\ stun' = [stun EXCEPT
                   !.tried = Append(@, outcome),
                   !.pc = IF stun.server < Len(stun_servers) THEN "send" ELSE "pass",
                   !.server = IF stun.server < Len(stun_servers) THEN @ + 1 ELSE 1,
                   !.retries = IF stun.server < Len(stun_servers) THEN @ ELSE @ + 1]
    /\ UNCHANGED <<public_ip, public_port, pc>>

(* discover_public_address returns *)
Return(outcome, result, ip, port) ==
    /\ stun' = [stun EXCEPT !.tried = Append(@, outcome), !.pc = "done", !.result = result]
    /\ public_ip' = ip
    /\ public_port' = port
    /\ pc' = [pc EXCEPT !["main"] = "register"]

(* while retries < max_retries *)
StunPass ==
    /\ stun.pc = "pass"
    /\ stun' = [stun EXCEPT !.pc = IF stun.retries < MaxRetries THEN "send" ELSE "fallback"]
    /\ UNCHANGED <<public_ip, public_port, pc>>
    /\ Elsewhere

(* the request to the current server is sent, or the server string does not
   split, its host does not resolve or sendto raises *)
StunSend ==
    /\ stun.pc = "send"
    /\ \/ stun' = [stun EXCEPT !.pc = "wait"] /\ UNCHANGED <<public_ip, public_port, pc>>
       \/ NextServer(Outcome("exception"))
    /\ Elsewhere

(* recvfrom raises socket.timeout after 2 seconds *)
StunTimeout ==
    /\ stun.pc = "wait"
    /\ NextServer(Outcome("timeout"))
    /\ Elsewhere

(* a response arrives *)
StunResponse ==
    /\ stun.pc = "wait"
    /\ \E response \in Responses :
          LET a == Parsed(response) IN
          IF a.kind = "address"
          THEN Return(Responded(response), "true", a.ip, a.port)
          ELSE NextServer(Responded(response))
    /\ Elsewhere

(* requests.get("https://api.ipify.org"), called without a timeout: the
   request is on its way, or the connection fails and the call raises *)
Fallback ==
    /\ stun.pc = "fallback"
    /\ \/ stun' = [stun EXCEPT !.pc = "http"] /\ UNCHANGED <<public_ip, public_port, pc>>
       \/ Return(Outcome("exception"), "false", public_ip, public_port)
    /\ Elsewhere

(* the IP-echo service answers *)
EchoReply ==
    /\ stun.pc = "http"
    /\ \E reply \in EchoReplies :
          IF reply.status = HttpOk
          THEN Return(Replied(reply), "true", reply.text, local_port)
          ELSE Return(Replied(reply), "false", public_ip, public_port)
    /\ Elsewhere

(* the connection to the IP-echo service breaks: requests.get raises *)
EchoError ==
    /\ stun.pc = "http"
    /\ Return(Outcome("exception"), "false", public_ip, public_port)
    /\ Elsewhere

(* what discover_public_address does by itself: a response and an answer of
   the IP-echo service come from outside *)
DiscoverStep == StunPass \/ StunSend \/ StunTimeout \/ Fallback

NextDiscover == DiscoverStep \/ StunResponse \/ EchoReply \/ EchoError

DiscoverSpec == InitDiscover /\ [][NextDiscover]_vars /\ WF_vars(DiscoverStep)

----------------------------------------------------------------------------
(* Properties *)

(* the step is an operation op (the clock alone leaves ev as it is) *)
Did(op) == now' = now /\ ev'.op = op

InQueue(n, mid) == \E i \in 1..Len(message_queue[n]) : message_queue[n][i].message_id = mid

SentOk(n, mid) ==
    /\ ev.op = "send" /\ ev.node = n
    /\ surfaced = <<Event("sent", ev.name, ev.content, mid)>>

ReceivedAndReceipted(n, from, mid) ==
    /\ ev.op = "recv" /\ ev.node = n
    /\ \E i \in 1..Len(message_queue[from]) :
          /\ message_queue[from][i].message_id = mid
          /\ surfaced = <<Event("message-received", username(from),
                                message_queue[from][i].content, mid)>>
    /\ Len(sent) = 1
    /\ sent[1].dst = NodeAddr(from)
    /\ sent[1].data.msg = ReceiptMsg(mid)

(* C1: with A and B holding each other with a session and no datagram lost,
   whenever A's send to B returns ok, B eventually shows the message as
   received from A with its content and sends a receipt, and A eventually
   removes the message from its queue of pending messages. *)
C1_SentIsReceivedAndReceipted ==
    \A mid \in 1..MaxMsgs :
        /\ SentOk("A", mid) ~> ReceivedAndReceipted("B", "A", mid)
        /\ SentOk("A", mid) ~> ~InQueue("A", mid)

(* the step leaves node n as handle_encrypted_message leaves it *)
HandledAsCiphertext(n, data, addr) ==
    LET r == handle_encrypted_message(n, Local(n), data, addr) IN
    /\ online_peers'[n] = r.peers
    /\ peer_boxes'[n] = r.boxes
    /\ message_queue'[n] = r.queue
    /\ surfaced' = r.shown
    /\ sent' \in Bytes(r.out)

(* C2: every inbound datagram that is not JSON, the byte strings that are not
   UTF-8 included, is handed with its source address to the handler of
   encrypted messages. *)
C2_UndecodableIsCiphertext ==
    [][(Did("recv") /\ ev'.data.form \in {"text", "binary"})
          => HandledAsCiphertext(ev'.node, ev'.data, ev'.src)]_vars

(* C3: under presence datagrams and stale evictions alone, a peer p other
   than the node itself is in the peer table exactly when the last presence
   event for p was online and no eviction has run since more than 300 s
   after it. *)
C3_InTableIffOnlineAndNotStale ==
    \A p \in Users \ {"A"} :
        HasPeer(online_peers["A"], p)
            <=> (heard["A"][p].status = "online" /\ ~heard["A"][p].crossed)

C3_Witness ==
    /\ ev.op = "cleanup"
    /\ heard["A"]["B"].status = "online" /\ heard["A"]["B"].crossed
    /\ ~HasPeer(online_peers["A"], "B")
    /\ HasPeer(online_peers["A"], "X")

(* C4: a session exists for a user id exactly when the user id is in the
   peer table and the public key recorded for it is parseable. *)
C4_SessionIffParseablePeer ==
    \A n \in nodes : \A u \in Users :
        peer_boxes[n][u] # NoBox
            <=> /\ HasPeer(online_peers[n], u)
                /\ Parseable(online_peers[n][Index(online_peers[n], u)].pubkey)

(* C5: no input makes the node's own user id a key of its peer table or of
   its session cache. *)
C5_SelfNeverListed ==
    \A n \in nodes :
        /\ ~HasPeer(online_peers[n], user_id(n))
        /\ peer_boxes[n][user_id(n)] = NoBox

C5_Witness ==
    /\ ev.op = "bootstrap"
    /\ Len(ev.peers) = 2
    /\ ev.peers[1].user_id = "A"
    /\ HasPeer(online_peers["A"], ev.peers[2].user_id)

(* the datagram is a receipt that node n decrypts: it is UTF-8 text, a peer
   with a session is recorded at its source address, and that session opens it *)
DecryptedReceipt(n, data, addr) ==
    /\ data.form = "text"
    /\ data.msg.type = "receipt"
    /\ LET s == FindByAddr(online_peers[n], addr) IN
       /\ s # Missing
       /\ peer_boxes[n][s] # NoBox
       /\ Decrypts(n, peer_boxes[n][s], data)

(* C6: when a decrypted receipt arrives whose message id matches an entry of
   the queue of pending messages, the first matching entry is removed, the
   queue is one shorter and the other entries keep their order; no entry
   with that id is left, so a further receipt with it, like a receipt
   matching nothing, leaves the queue unchanged. *)
C6_ReceiptRemovesFirstMatch ==
    [][(Did("recv") /\ DecryptedReceipt(ev'.node, ev'.data, ev'.src)) =>
          LET q == message_queue[ev'.node]
              q2 == message_queue'[ev'.node]
              mid == ev'.data.msg.message_id
              hits == {i \in 1..Len(q) : q[i].message_id = mid}
          IN  IF hits = {} THEN q2 = q
              ELSE /\ Len(q2) = Len(q) - 1
                   /\ \E k \in hits :
                         /\ \A j \in hits : k <= j
                         /\ \A i \in 1..Len(q2) : q2[i] = IF i < k THEN q[i] ELSE q[i + 1]
                   /\ \A i \in 1..Len(q2) : q2[i].message_id # mid]_vars

C6_Witness ==
    /\ ev.op = "recv"
    /\ surfaced = <<Event("message-delivered", "", "", 2)>>
    /\ Len(message_queue["A"]) = 1
    /\ message_queue["A"][1].message_id = 1

(* C7: receiving the same presence(online) datagram from the same address
   again leaves the peer table as it is, except that the peer's last_seen
   becomes the time of the repeat: no entry is added, and every entry keeps
   its name, address and public key. *)
C7_RepeatedPresenceOnlyRefreshes ==
    [][(/\ Did("recv") /\ ev.op = "recv"
        /\ ev'.node = ev.node /\ ev'.data = ev.data /\ ev'.src = ev.src
        /\ IsPresence(ev.node, ev.data) /\ ev.data.msg.status = "online") =>
          LET tbl == online_peers[ev.node]
              tbl2 == online_peers'[ev.node]
              uid == ev.data.msg.user_id
          IN  /\ HasPeer(tbl, uid)
              /\ Len(tbl2) = Len(tbl)
              /\ \A i \in 1..Len(tbl) :
                    IF tbl[i].user_id = uid
                    THEN /\ tbl2[i] = [tbl[i] EXCEPT !.last_seen = now]
                         /\ tbl[i].last_seen <= tbl2[i].last_seen
                    ELSE tbl2[i] = tbl[i]]_vars

C7_Witness ==
    /\ ev.op = "recv"
    /\ IsPresence("A", ev.data) /\ ev.data.msg.status = "online"
    /\ ev.prior = ev.src
    /\ sent = <<>>
    /\ now > 0
    /\ heard["A"][ev.data.msg.user_id].at = now
    /\ HasPeer(online_peers["A"], ev.data.msg.user_id)
    /\ online_peers["A"][Index(online_peers["A"], ev.data.msg.user_id)].last_seen = now
    /\ online_peers["A"][Index(online_peers["A"], ev.data.msg.user_id)].pubkey = ev.data.msg.pubkey

(* C8: every ping is answered, in the iteration of the receive loop that
   takes it, with exactly one plaintext pong to exactly its source address,
   whether or not a peer is known there; the peer table, the session cache
   and the queue of pending messages stay as they are. *)
C8_PingIsAnsweredWithPong ==
    [][(Did("recv") /\ ev'.data.form = "object" /\ ev'.data.msg.type = "ping") =>
          /\ sent' = <<Out(ev'.src, Plain(PongMsg))>>
          /\ UNCHANGED <<online_peers, peer_boxes, message_queue>>]_vars

C8_Witness ==
    /\ ev.op = "recv"
    /\ ev.data.form = "object" /\ ev.data.msg.type = "ping"
    /\ ev.src = AddrB2
    /\ FindByAddr(online_peers["A"], AddrB2) = Missing
    /\ sent = <<Out(AddrB2, Plain(PongMsg))>>
    /\ message_queue["A"] # <<>>

(* the last operation took presence(online) for a known user id from an
   address other than the recorded one *)
Moved(e) ==
    /\ e.op = "recv"
    /\ IsPresence(e.node, e.data) /\ e.data.msg.status = "online"
    /\ e.prior \notin {NoAddr, e.src}

(* the table of node n holds exactly one entry for uid, at addr *)
RecordedOnceAt(tbl, uid, addr) ==
    /\ Cardinality({i \in 1..Len(tbl) : tbl[i].user_id = uid}) = 1
    /\ \A i \in 1..Len(tbl) :
          tbl[i].user_id = uid => (tbl[i].ip = addr.ip /\ tbl[i].port = addr.port)

(* a send of node n to the name resolves to uid and finds a session *)
Reaches(n, uid, name) ==
    /\ peer_boxes[n][uid] # NoBox
    /\ \E i \in 1..Len(online_peers[n]) :
          /\ online_peers[n][i].user_id = uid
          /\ \A j \in 1..(i - 1) : Lower(online_peers[n][j].username) # Lower(name)

(* C9 as claimed: after presence(online) for a known user id from another
   address the table holds one entry for it, at the source address, and the
   next send to that peer's name transmits to the new address. *)
C9_MovedPeerIsSentToAtNewAddress ==
    [][/\ (Did("recv") /\ Moved(ev')) =>
             RecordedOnceAt(online_peers'[ev'.node], ev'.data.msg.user_id, ev'.src)
       /\ (/\ Moved(ev) /\ Did("send") /\ ev'.node = ev.node
           /\ Lower(ev'.name) = Lower(ev.data.msg.username)) =>
             (Len(sent') = 1 /\ sent'[1].dst = ev.src)]_vars

(* C9, amended: ... and the next send to that peer's name transmits to the
   new address when that peer is the first entry of the table with the name
   and a session exists for it. *)
C9_MovedPeerIsReachedAtNewAddress ==
    [][/\ (Did("recv") /\ Moved(ev')) =>
             RecordedOnceAt(online_peers'[ev'.node], ev'.data.msg.user_id, ev'.src)
       /\ (/\ Moved(ev) /\ Did("send") /\ ev'.node = ev.node
           /\ Lower(ev'.name) = Lower(ev.data.msg.username)
           /\ Reaches(ev.node, ev.data.msg.user_id, ev'.name)) =>
             (Len(sent') = 1 /\ sent'[1].dst = ev.src)]_vars

C9_Witness ==
    /\ ev.op = "send"
    /\ Len(sent) = 1 /\ sent[1].dst = AddrB2
    /\ Len(message_queue["A"]) = 2
    /\ message_queue["A"][1].to_user_id = "B"
    /\ message_queue["A"][2].to_user_id = "B"
    /\ RecordedOnceAt(online_peers["A"], "B", AddrB2)
    /\ Len(online_peers["A"]) = 2
    /\ online_peers["A"][1].user_id = "B"      \* B has kept its place in the table
    /\ message_queue["A"][1].timestamp = 0

(* the step drops the datagram: nothing is sent or shown, nothing changes *)
Dropped ==
    /\ sent' = <<>>
    /\ surfaced' = <<>>
    /\ UNCHANGED <<online_peers, peer_boxes, message_queue>>

C11_SendNotFoundOrQueued ==
    [][Did("send") =>
          LET n == ev'.node
              tbl == online_peers[n]
              q == message_queue[n]
              q2 == message_queue'[n]
              i == LookupByName(tbl, ev'.name)
          IN  IF i = 0 \/ peer_boxes[n][tbl[i].user_id] = NoBox
              THEN /\ surfaced' = <<Event("not-found", ev'.name, "", 0)>>
                   /\ sent' = <<>>
                   /\ q2 = q
              ELSE /\ Len(surfaced') = 1
                   /\ surfaced'[1].kind \in {"sent", "send-failed"}
                   /\ surfaced'[1].kind = "sent" <=> Len(sent') = 1
                   /\ Len(q2) = Len(q) + 1
                   /\ SubSeq(q2, 1, Len(q)) = q
                   /\ q2[Len(q2)].message_id > uuids
                   /\ \A k \in 1..Len(q) : q[k].message_id # q2[Len(q2)].message_id]_vars

(* the presence datagram announces a peer that is new to node n or has
   changed address, as the table stood before the last operation *)
NewOrMoved(e) ==
    /\ IsPresence(e.node, e.data) /\ e.data.msg.status = "online"
    /\ e.prior # e.src

(* C13: whenever presence(online) finds the peer new or at another address
   than the recorded one, the node sends its own presence(online) to the
   source address of the datagram, whether or not the announced public key
   is parseable; when the presence only refreshes an entry, nothing is
   sent. *)
C13_NewOrMovedPeerIsAnswered ==
    [][(/\ Did("recv") /\ IsPresence(ev'.node, ev'.data)
        /\ ev'.data.msg.status = "online") =>
          IF NewOrMoved(ev')
          THEN sent' = <<Out(ev'.src, Plain(PresenceMsg(ev'.node, "online")))>>
          ELSE sent' = <<>>]_vars

(* the last operation took a ping or a presence(online) of user uid from the
   address the table of node n holds for uid *)
HeardFrom(e, n, uid) ==
    /\ e.op = "recv" /\ e.node = n
    /\ e.data.form = "object"
    /\ e.data.msg.user_id = uid
    /\ \/ e.data.msg.type = "ping"
       \/ IsPresence(n, e.data) /\ e.data.msg.status = "online"
    /\ RecordedOnceAt(online_peers[n], uid, e.src)

(* C16: a peer from which a ping or a presence(online) datagram was received
   within the last 300 s is not removed by stale eviction. *)
C16_RecentlyHeardNotEvicted ==
    [][\A uid \in Users :
          (/\ Did("cleanup")
           /\ HeardFrom(ev, ev'.node, uid)
           /\ now - ev.at <= PeerTimeout) =>
             HasPeer(online_peers'[ev'.node], uid)]_vars

(* C18: a pending message leaves the queue only when a receipt with its
   message id is received and decrypted from the peer it was addressed to;
   no other operation, and no receipt of another peer, removes it. *)
C18_OnlyAddresseeReceiptRemoves ==
    [][\A n \in nodes : \A k \in 1..Len(message_queue[n]) :
          (~\E j \in 1..Len(message_queue'[n]) : message_queue'[n][j] = message_queue[n][k]) =>
             /\ Did("recv") /\ ev'.node = n
             /\ DecryptedReceipt(n, ev'.data, ev'.src)
             /\ ev'.data.msg.message_id = message_queue[n][k].message_id
             /\ FindByAddr(online_peers[n], ev'.src) = message_queue[n][k].to_user_id]_vars

(* C19: ingesting a peer list of a bootstrap node never overwrites the
   address, the public key or the last_seen of a peer already in the table. *)
C19_BootstrapKeepsKnownPeers ==
    [][Did("bootstrap") =>
          \A i \in 1..Len(online_peers[ev'.node]) :
              /\ i <= Len(online_peers'[ev'.node])
              /\ online_peers'[ev'.node][i] = online_peers[ev'.node][i]]_vars

(* the datagram is plaintext that is malformed: JSON that is not an object,
   an object without a type or with an unknown one, or a presence without
   user_id, username, status or pubkey *)
Malformed(data) ==
    \/ data.form = "scalar"
    \/ /\ data.form = "object"
       /\ \/ data.msg.type \notin {"presence", "ping", "pong"}
          \/ /\ data.msg.type = "presence"
             /\ Missing \in {data.msg.user_id, data.msg.username, data.msg.status,
                              data.msg.pubkey}

(* C20: a malformed plaintext datagram is dropped: the peer table, the
   session cache and the queue of pending messages stay as they are and
   nothing is sent in reply. *)
C20_MalformedIsDropped ==
    [][(Did("recv") /\ Malformed(ev'.data)) => Dropped]_vars

(* C12: whenever the interrupt signal is delivered, in whatever state the
   node is in, shutdown eventually completes: running is false,
   presence(offline) has been broadcast to the peers of the table and the
   process has exited. *)
C12_InterruptCompletesShutdown ==
    shutdown.signalled ~> (pc["main"] = "exited" /\ ~running /\ shutdown.offline)

(* the datagram is a plaintext presence with the status *)
IsPresenceOut(o, status) ==
    /\ o.data.form = "object"
    /\ o.data.msg.type = "presence"
    /\ o.data.msg.status = status

(* C14: no step of a thread that passes a datagram to the socket is taken
   while that thread holds the peer-table lock. *)
C14_NoSendUnderLock ==
    [][(pc' # pc /\ sent' # <<>>) => lock # ev'.thread]_vars

(* C15: the session a flow found when it tested for it is still there when
   the flow uses it: no other flow removes it between the check and the
   use. *)
C15_SessionStaysFromCheckToUse ==
    [][(pc' # pc /\ ev'.op \in {"send:use", "enc:use"}) =>
          peer_boxes[Proc][frame[ev'.thread].peer] # NoBox]_vars

(* C17: once running is false and presence(offline) has been broadcast, the
   node sends no presence(online) to any peer. *)
C17_NoOnlineAfterOffline ==
    [][(pc' # pc /\ ~running /\ shutdown.offline) =>
          \A i \in 1..Len(sent') : ~IsPresenceOut(sent'[i], "online")]_vars

(* the attempt did not yield an address *)
Failed(outcome) ==
    \/ outcome.kind \in {"exception", "timeout"}
    \/ outcome.kind = "response" /\ Parsed(outcome.response).kind # "address"

(* C21: discover always terminates.  It returns the address parsed from the
   first response that is well-formed, a timeout and a malformed or too
   short response making it go on to the next server; it asks the IP-echo
   service only after MaxRetries passes in which every server failed, and
   then takes the locally bound port as the public port; when that fails
   too it reports failure and leaves the public address undetermined. *)
C21_DiscoverTerminates ==
    /\ [][/\ (stun.pc = "wait" /\ stun'.pc # "wait") =>
               LET outcome == stun'.tried[Len(stun'.tried)] IN
               IF Failed(outcome)
               THEN /\ stun'.result = "none"
                    /\ stun'.pc \in {"send", "pass"}
                    /\ UNCHANGED <<public_ip, public_port>>
               ELSE /\ stun'.result = "true"
                    /\ public_ip' = Parsed(outcome.response).ip
                    /\ public_port' = Parsed(outcome.response).port
                    /\ \A i \in 1..Len(stun.tried) : Failed(stun.tried[i])
          /\ (stun.pc # "fallback" /\ stun'.pc = "fallback") =>
               /\ Len(stun.tried) = MaxRetries * Len(stun_servers)
               /\ \A i \in 1..Len(stun.tried) : Failed(stun.tried[i])
          /\ (stun.pc = "http" /\ stun'.result = "true") =>
               /\ public_port' = local_port
               /\ public_ip' = stun'.tried[Len(stun'.tried)].text
          /\ stun'.result = "false" =>
               (public_ip' = Undetermined /\ public_port' = NoPort)]_vars
    /\ <>(stun.result # "none")

====
